---------------------------- MODULE Spec2Model ----------------------------
(***************************************************************************)
(* The bar-by-bar execution simulator of src/backtester.py (class          *)
(* Backtester): the position and ledger state machine (_open_position,     *)
(* _close_position), the execution model (_get_execution_index,            *)
(* _get_execution_price) and the simulation loop of Backtester.run.        *)
(*                                                                         *)
(* Python floats are modelled as exact rationals <<n, d>> with d > 0 in    *)
(* lowest terms, so that equal numbers are equal values.  None is the      *)
(* pair <<0, 0>>, which is no rational.  A DataFrame is a function from    *)
(* the row positions 0 .. len-1 (the positions .iloc takes) to row         *)
(* records; the timestamp of a row is its position.  The columns high,     *)
(* low and volume are never read by the simulator and are left out.        *)
(***************************************************************************)
EXTENDS Integers, Sequences, FiniteSets, TLC

(***************************************************************************)
(* Bounds of the model.                                                    *)
(***************************************************************************)
MaxBars == 4
MaxPrice == 2
MaxLatency == 1

(***************************************************************************)
(* Exact rational arithmetic standing for float arithmetic.                *)
(***************************************************************************)
Abs(x) == IF x < 0 THEN -x ELSE x

RECURSIVE GCD(_, _)
GCD(a, b) == IF b = 0 THEN a ELSE GCD(b, a % b)

Norm(n, d) ==
    IF n = 0 THEN <<0, 1>>
    ELSE LET g == GCD(Abs(n), Abs(d))
             s == IF d < 0 THEN -1 ELSE 1
         IN  <<s * (n \div g), s * (d \div g)>>

Rat(n, d) == Norm(n, d)
Zero == <<0, 1>>
One == <<1, 1>>
None == <<0, 0>>

RNeg(a) == <<-a[1], a[2]>>

RAdd(a, b) ==
    LET g == GCD(a[2], b[2])
    IN  Norm(a[1] * (b[2] \div g) + b[1] * (a[2] \div g), (a[2] \div g) * b[2])

RSub(a, b) == RAdd(a, RNeg(b))

RMul(a, b) ==
    LET g1 == GCD(Abs(a[1]), b[2])
        g2 == GCD(Abs(b[1]), a[2])
    IN  IF a[1] = 0 \/ b[1] = 0 THEN Zero
        ELSE <<(a[1] \div g1) * (b[1] \div g2), (a[2] \div g2) * (b[2] \div g1)>>

\* a / b for b # 0
RDiv(a, b) ==
    IF b[1] < 0 THEN RMul(a, <<-b[2], -b[1]>>) ELSE RMul(a, <<b[2], b[1]>>)

RLe(a, b) ==
    LET g == GCD(a[2], b[2])
    IN  a[1] * (b[2] \div g) <= b[1] * (a[2] \div g)

RLt(a, b) == RLe(a, b) /\ a # b

RAbs(a) == <<Abs(a[1]), a[2]>>

RMax(a, b) == IF RLe(a, b) THEN b ELSE a

(***************************************************************************)
(* Inputs.  A configuration holds the constructor's arguments; the run     *)
(* arguments are stop_loss, take_profit and position_size.                 *)
(***************************************************************************)
InitialCapital == 10000

Latencies == 0 .. MaxLatency
StopLosses == {None, Rat(1, 2)}
TakeProfits == {None, One}

Config(com, slip, lat, mode) ==
    [initial_capital |-> Rat(InitialCapital, 1),
     commission |-> com,
     slippage |-> slip,
     latency_bars |-> lat,
     execution_mode |-> mode]

RunArgs(sl, tp, size) == [stop_loss |-> sl, take_profit |-> tp, position_size |-> size]

\* The configurations and run arguments explored: every stop-loss/take-profit
\* setting at every latency without costs; a commission at every latency; a
\* slippage under both price-reference rules with half of the cash allocated.
Inputs ==
    {[cfg |-> Config(Zero, Zero, lat, "next_open"), args |-> RunArgs(sl, tp, One)] :
        lat \in Latencies, sl \in StopLosses, tp \in TakeProfits}
    \cup
    {[cfg |-> Config(Rat(1, 2), Zero, lat, "next_open"), args |-> RunArgs(None, None, One)] :
        lat \in Latencies}
    \cup
    {[cfg |-> Config(Zero, Rat(1, 4), MaxLatency, mode), args |-> RunArgs(None, None, Rat(1, 2))] :
        mode \in {"next_open", "close"}}

Prices == {Rat(p, 1) : p \in 1 .. MaxPrice}
Signals == {-1, 0, 1}

\* The rows a strategy hands to run: prices and the strategy's signal.  The
\* loop starts at row 1 and executes at rows >= 1, so the prices of row 0 are
\* fixed; its signal is free.
Row(t, o, c, sg) == [timestamp |-> t, open |-> o, close |-> c, signal |-> sg]

Bars == [open : Prices, close : Prices, signal : Signals]

DataOfLen(n) ==
    {[t \in 0 .. n - 1 |->
        IF t = 0
        THEN Row(0, One, One, sg)
        ELSE Row(t, f[t].open, f[t].close, f[t].signal)] :
        sg \in Signals, f \in [1 .. n - 1 -> Bars]}

len(d) == Cardinality(DOMAIN d)

\* df.iloc[k]: a negative position counts from the end.
iloc(d, k) == IF k < 0 THEN d[len(d) + k] ELSE d[k]

(***************************************************************************)
(* Backtester: state and execution helpers.                                *)
(***************************************************************************)
NoTrade == [none |-> TRUE]

reset(c) ==
    [capital |-> c.initial_capital,
     position |-> Zero,
     entry_price |-> None,
     trades |-> <<>>,
     current_trade |-> NoTrade]

\* The execution index without the latency.
get_execution_index_no_latency(c, i, last_index) == i

\* The execution index without the bound at the last bar.
get_execution_index_unbounded(c, i, last_index) == i + c.latency_bars

\* The execution index wrapped round to the first bars past the last one.
get_execution_index_wraps(c, i, last_index) ==
    (i + c.latency_bars) % (last_index + 1)

get_execution_index(c, i, last_index) ==
    LET exec_idx == i + c.latency_bars
    IN  IF exec_idx > last_index THEN last_index ELSE exec_idx

\* The execution price with the slippage taken off on both sides.
get_execution_price_minus(c, d, exec_idx, side) ==
    LET base_price == IF c.execution_mode = "next_open"
                      THEN d[exec_idx].open
                      ELSE d[exec_idx].close
    IN  RMul(base_price, RSub(One, c.slippage))

get_execution_price(c, d, exec_idx, side) ==
    LET base_price == IF c.execution_mode = "next_open"
                      THEN d[exec_idx].open
                      ELSE d[exec_idx].close
    IN  IF side = "buy"
        THEN RMul(base_price, RAdd(One, c.slippage))
        ELSE RMul(base_price, RSub(One, c.slippage))

(***************************************************************************)
(* Position management.  s is the Backtester's state (self).               *)
(***************************************************************************)
\* An open that is never refused.
open_refused_never(qty, available_capital) == FALSE

\* if qty <= 0 or available_capital <= 0: return
open_refused(qty, available_capital) ==
    RLe(qty, Zero) \/ RLe(available_capital, Zero)

\* The cash left by an open charged its gross cost only.
cash_after_open_no_fee(capital, gross_cost, trade_cost) == RSub(capital, gross_cost)

\* self.capital -= (gross_cost + trade_cost)
cash_after_open(capital, gross_cost, trade_cost) ==
    RSub(capital, RAdd(gross_cost, trade_cost))

\* An open that creates no in-flight trade.
new_trade_missing(entry_date, exec_price, qty, side, trade_cost) == NoTrade

\* self.current_trade = {...}
new_trade(entry_date, exec_price, qty, side, trade_cost) ==
    [entry_date |-> entry_date,
     entry_price |-> exec_price,
     quantity |-> qty,
     side |-> side,
     commission |-> trade_cost]

open_position(c, s, d, index, side, position_size) ==
    LET last_index == len(d) - 1
        exec_idx == get_execution_index(c, index, last_index)
        exec_price == get_execution_price(c, d, exec_idx, side)
        available_capital == RMul(s.capital, position_size)
        qty == IF RLt(Zero, exec_price) THEN RDiv(available_capital, exec_price) ELSE Zero
        gross_cost == RMul(qty, exec_price)
        trade_cost == RMul(gross_cost, c.commission)
    IN  IF open_refused(qty, available_capital)
        THEN s
        ELSE [s EXCEPT
                !.position = qty,
                !.entry_price = exec_price,
                !.capital = cash_after_open(s.capital, gross_cost, trade_cost),
                !.current_trade =
                    new_trade(d[exec_idx].timestamp, exec_price, qty, side,
                              trade_cost)]

\* The closed trade put in front of the ledger.
record_trade_first(trades, closed) == <<closed>> \o trades

\* The closed trade left out of the ledger.
record_trade_dropped(trades, closed) == trades

\* self.trades.append(self.current_trade)
record_trade(trades, closed) == Append(trades, closed)

\* The cash after a close credited its gross proceeds.
cash_after_close_no_fee(capital, gross_proceeds, trade_cost) ==
    RAdd(capital, gross_proceeds)

\* net_proceeds = gross_proceeds - trade_cost; self.capital += net_proceeds
cash_after_close(capital, gross_proceeds, trade_cost) ==
    RAdd(capital, RSub(gross_proceeds, trade_cost))

\* The body of _close_position below its guard.
close_effect(c, s, d, index, reason) ==
    LET last_index == len(d) - 1
        exec_idx == get_execution_index(c, index, last_index)
        exec_price == get_execution_price(c, d, exec_idx, "sell")
        qty == s.position
        gross_proceeds == RMul(qty, exec_price)
        trade_cost == RMul(gross_proceeds, c.commission)
        trade == IF s.current_trade = NoTrade
                 THEN [entry_date |-> d[exec_idx].timestamp,
                       entry_price |-> s.entry_price,
                       quantity |-> qty,
                       side |-> "buy",
                       commission |-> Zero]
                 ELSE s.current_trade
        pnl == RMul(RSub(exec_price, trade.entry_price), qty)
        pnl_pct == RDiv(RSub(exec_price, trade.entry_price), trade.entry_price)
        closed == [entry_date |-> trade.entry_date,
                   entry_price |-> trade.entry_price,
                   quantity |-> trade.quantity,
                   side |-> trade.side,
                   exit_date |-> d[exec_idx].timestamp,
                   exit_price |-> exec_price,
                   exit_reason |-> reason,
                   pnl |-> pnl,
                   pnl_percent |-> pnl_pct,
                   commission |-> RAdd(trade.commission, trade_cost)]
    IN  [s EXCEPT
            !.capital = cash_after_close(s.capital, gross_proceeds, trade_cost),
            !.trades = record_trade(s.trades, closed),
            !.current_trade = NoTrade,
            !.position = Zero,
            !.entry_price = None]

\* _close_position without its guard.
close_position_unguarded(c, s, d, index, reason) ==
    close_effect(c, s, d, index, reason)

\* _close_position leaving entry_price set.
close_position_keeps_entry(c, s, d, index, reason) ==
    IF s.position = Zero \/ s.entry_price = None
    THEN s
    ELSE [close_effect(c, s, d, index, reason) EXCEPT !.entry_price = s.entry_price]

close_position(c, s, d, index, reason) ==
    IF s.position = Zero \/ s.entry_price = None
    THEN s
    ELSE close_effect(c, s, d, index, reason)


(***************************************************************************)
(* The simulation loop of Backtester.run.  a holds the run arguments.      *)
(***************************************************************************)
\* The tracking columns run adds to the frame before the loop.
add_columns(c, d) ==
    [t \in DOMAIN d |->
        [timestamp |-> d[t].timestamp,
         open |-> d[t].open,
         close |-> d[t].close,
         signal |-> d[t].signal,
         capital |-> c.initial_capital,
         position_qty |-> Zero,
         position_value |-> Zero,
         cash |-> c.initial_capital,
         total_value |-> c.initial_capital,
         returns |-> Zero,
         cumulative_returns |-> Zero,
         drawdown |-> Zero,
         peak |-> c.initial_capital]]

\* The stop-loss test with < for <=.
risk_exit_strict(a, price_change_pct) ==
    IF a.stop_loss # None
       /\ RLt(price_change_pct, RNeg(RAbs(a.stop_loss)))
    THEN "Stop Loss"
    ELSE IF a.take_profit # None
            /\ RLe(RAbs(a.take_profit), price_change_pct)
    THEN "Take Profit"
    ELSE "none"

\* The thresholds compared without testing that they are set.
risk_exit_unchecked(a, price_change_pct) ==
    IF RLe(price_change_pct, RNeg(RAbs(a.stop_loss)))
    THEN "Stop Loss"
    ELSE IF RLe(RAbs(a.take_profit), price_change_pct)
    THEN "Take Profit"
    ELSE "none"

\* The exit the risk settings force on a long position whose unrealized
\* return is price_change_pct: the stop-loss first, then the take-profit.
risk_exit(a, price_change_pct) ==
    IF a.stop_loss # None
       /\ RLe(price_change_pct, RNeg(RAbs(a.stop_loss)))
    THEN "Stop Loss"
    ELSE IF a.take_profit # None
            /\ RLe(RAbs(a.take_profit), price_change_pct)
    THEN "Take Profit"
    ELSE "none"

\* The risk check leaving the bar's signal in place after a forced close.
risk_check_keeps_signal(c, a, s, d, i) ==
    LET price_close == d[i].close
        signal == d[i].signal
        keep == [self |-> s, signal |-> signal]
    IN  IF s.position # Zero /\ s.entry_price # None
        THEN LET price_change_pct ==
                     RDiv(RSub(price_close, s.entry_price), s.entry_price)
                 reason == risk_exit(a, price_change_pct)
             IN  IF RLt(Zero, s.position) /\ reason # "none"
                 THEN [self |-> close_position(c, s, d, i, reason),
                       signal |-> signal]
                 ELSE keep
        ELSE keep

\* Stop loss / take profit on the open position, on the bar's close: the
\* Backtester's state after the check and the signal left for the bar
\* (0 after a forced close).
risk_check(c, a, s, d, i) ==
    LET price_close == d[i].close
        signal == d[i].signal
        keep == [self |-> s, signal |-> signal]
    IN  IF s.position # Zero /\ s.entry_price # None
        THEN LET price_change_pct ==
                     RDiv(RSub(price_close, s.entry_price), s.entry_price)
                 reason == risk_exit(a, price_change_pct)
             IN  IF RLt(Zero, s.position) /\ reason # "none"
                 THEN [self |-> close_position(c, s, d, i, reason),
                       signal |-> 0]
                 ELSE keep
        ELSE keep

\* A buy signal opening whatever the position.
handle_signal_pyramids(c, a, s, d, i, signal) ==
    IF signal = 1
    THEN open_position(c, s, d, i, "buy", a.position_size)
    ELSE IF signal = -1
    THEN IF RLt(Zero, s.position)
         THEN close_position(c, s, d, i, "Signal Exit")
         ELSE s
    ELSE s

\* Entry and exit on the bar's (possibly suppressed) signal.
handle_signal(c, a, s, d, i, signal) ==
    IF signal = 1
    THEN IF s.position = Zero
         THEN open_position(c, s, d, i, "buy", a.position_size)
         ELSE s
    ELSE IF signal = -1
    THEN IF RLt(Zero, s.position)
         THEN close_position(c, s, d, i, "Signal Exit")
         ELSE s
    ELSE s

\* The position valued at the bar's open.
position_value_at_open(position, row) == RMul(position, row.open)

\* The position valued at the bar's close.
position_value_at_close(position, row) == RMul(position, row.close)

\* The peak taken to be the bar's equity.
running_peak_reset(prev_peak, total_value) == total_value

running_peak(prev_peak, total_value) == RMax(prev_peak, total_value)

\* The bar's return computed whatever the previous equity.
bar_return_unguarded(total_value, prev_total) ==
    RDiv(RSub(total_value, prev_total), prev_total)

\* The bar's return: 0 when the previous equity is 0.
bar_return(total_value, prev_total) ==
    IF prev_total # Zero
    THEN RDiv(RSub(total_value, prev_total), prev_total)
    ELSE Zero

\* The bar's final columns: position, cash, equity, returns and drawdown.
update_columns(c, s, d, i) ==
    LET position_value == position_value_at_close(s.position, d[i])
        total_value == RAdd(s.capital, position_value)
        prev_total == iloc(d, i - 1).total_value
        ret == bar_return(total_value, prev_total)
        cum_ret == RDiv(RSub(total_value, c.initial_capital), c.initial_capital)
        peak == running_peak(iloc(d, i - 1).peak, total_value)
        drawdown == IF peak # Zero THEN RDiv(RSub(total_value, peak), peak) ELSE Zero
    IN  [d EXCEPT ![i] =
            [@ EXCEPT
                !.position_qty = s.position,
                !.position_value = position_value,
                !.cash = s.capital,
                !.total_value = total_value,
                !.returns = ret,
                !.cumulative_returns = cum_ret,
                !.peak = peak,
                !.drawdown = drawdown]]

\* One iteration of the main loop, on bar i.
loop_body(c, a, s, d, i) ==
    LET r == risk_check(c, a, s, d, i)
        s2 == handle_signal(c, a, r.self, d, i, r.signal)
    IN  [self |-> s2, df |-> update_columns(c, s2, d, i)]

\* run returning without the forced close.
end_of_period_skipped(c, s, d) == s

\* The forced close decided one bar before the last.
end_of_period_early(c, s, d) ==
    IF RLt(Zero, s.position)
    THEN close_position(c, s, d, len(d) - 2, "End of Period")
    ELSE s

\* The forced close of a position still open after the loop.
end_of_period(c, s, d) ==
    IF RLt(Zero, s.position)
    THEN close_position(c, s, d, len(d) - 1, "End of Period")
    ELSE s

(***************************************************************************)
(* calculate_metrics, for the keys computed with the four operations (the  *)
(* volatility, Sharpe ratio, backtest days and annual return take a square *)
(* root, a power or a date difference of columns the other keys already    *)
(* read).                                                                  *)
(***************************************************************************)
RMin(a, b) == IF RLe(a, b) THEN a ELSE b

RECURSIVE RSum(_)
RSum(q) == IF q = <<>> THEN Zero ELSE RAdd(q[1], RSum(Tail(q)))

\* np.mean of a non-empty list
RMean(q) == RDiv(RSum(q), Rat(Len(q), 1))

RECURSIVE RMaxOf(_)
RMaxOf(q) == IF Len(q) = 1 THEN q[1] ELSE RMax(q[1], RMaxOf(Tail(q)))

RECURSIVE RMinOf(_)
RMinOf(q) == IF Len(q) = 1 THEN q[1] ELSE RMin(q[1], RMinOf(Tail(q)))

Hundred == Rat(100, 1)

pnl_of(trades) == [k \in 1 .. Len(trades) |-> trades[k].pnl]

\* The profit factor computed whatever the average loss.
profit_factor_unguarded(avg_win, avg_loss, losing_trades) ==
    RAbs(RDiv(avg_win, avg_loss))

\* |avg_win / avg_loss|, or 0 without a losing trade or average loss.
profit_factor(avg_win, avg_loss, losing_trades) ==
    IF avg_loss # Zero /\ losing_trades > 0
    THEN RAbs(RDiv(avg_win, avg_loss))
    ELSE Zero

trade_metrics(trades) ==
    LET wins == SelectSeq(pnl_of(trades), LAMBDA x : RLt(Zero, x))
        losses == SelectSeq(pnl_of(trades), LAMBDA x : RLt(x, Zero))
        avg_win == IF wins # <<>> THEN RMean(wins) ELSE Zero
        avg_loss == IF losses # <<>> THEN RMean(losses) ELSE Zero
    IN  IF trades # <<>>
        THEN [winning_trades |-> Len(wins),
              losing_trades |-> Len(losses),
              win_rate |-> RMul(Rat(Len(wins), Len(trades)), Hundred),
              avg_win |-> avg_win,
              avg_loss |-> avg_loss,
              profit_factor |-> profit_factor(avg_win, avg_loss, Len(losses)),
              max_win |-> IF wins # <<>> THEN RMaxOf(wins) ELSE Zero,
              max_loss |-> IF losses # <<>> THEN RMinOf(losses) ELSE Zero]
        ELSE [winning_trades |-> 0,
              losing_trades |-> 0,
              win_rate |-> Zero,
              avg_win |-> Zero,
              avg_loss |-> Zero,
              profit_factor |-> Zero,
              max_win |-> Zero,
              max_loss |-> Zero]

calculate_metrics(c, s, d) ==
    LET final_capital == iloc(d, -1).total_value
        total_return == RDiv(RSub(final_capital, c.initial_capital), c.initial_capital)
        total_return_pct == RMul(total_return, Hundred)
        lowest == CHOOSE m \in {d[t].drawdown : t \in DOMAIN d} :
                      \A t \in DOMAIN d : RLe(m, d[t].drawdown)
        max_drawdown == RMul(lowest, Hundred)
    IN  [initial_capital |-> c.initial_capital,
         final_capital |-> final_capital,
         total_return |-> total_return,
         total_return_pct |-> total_return_pct,
         total_trades |-> Len(s.trades),
         trade |-> trade_metrics(s.trades),
         max_drawdown |-> max_drawdown,
         calmar_ratio |-> IF max_drawdown # Zero
                          THEN RDiv(total_return_pct, RAbs(max_drawdown))
                          ELSE Zero]

(***************************************************************************)
(* Exceptions.  A column the frame does not have is NoColumn in every row; *)
(* reading it raises KeyError.  An iteration raises at its first failing   *)
(* line, leaving what the lines before it did.                             *)
(***************************************************************************)
NoColumn == <<-1, 0>>

\* _get_execution_price reading the reference price of bar exec_idx.
price_read_raises(c, d, exec_idx) ==
    IF c.execution_mode = "next_open"
    THEN d[exec_idx].open = NoColumn
    ELSE d[exec_idx].close = NoColumn

\* The first failing line of the iteration on bar i: the read of the close,
\* the division by the entry price in the risk check, the read of the
\* reference price by an open or a close, the division by the initial
\* capital.  (A close divides by the entry price the risk check divided by.)
loop_failure(c, a, s, d, i) ==
    IF d[i].close = NoColumn THEN "KeyError close"
    ELSE IF s.position # Zero /\ s.entry_price # None /\ s.entry_price = Zero
    THEN "ZeroDivisionError entry_price"
    ELSE LET long == RLt(Zero, s.position)
             forced == long /\ s.entry_price # None
                       /\ risk_exit(a, RDiv(RSub(d[i].close, s.entry_price),
                                            s.entry_price)) # "none"
             traded == forced \/ (d[i].signal = 1 /\ s.position = Zero)
                              \/ (d[i].signal = -1 /\ long)
         IN  IF traded /\ price_read_raises(
                              c, d, get_execution_index(c, i, len(d) - 1))
             THEN "KeyError price"
             ELSE IF c.initial_capital = Zero THEN "ZeroDivisionError"
             ELSE "none"

\* The columns of bar i written before the cumulative return is computed.
update_columns_to_returns(c, s, d, i) ==
    LET position_value == position_value_at_close(s.position, d[i])
        total_value == RAdd(s.capital, position_value)
        prev_total == iloc(d, i - 1).total_value
        ret == bar_return(total_value, prev_total)
    IN  [d EXCEPT ![i] =
            [@ EXCEPT
                !.position_qty = s.position,
                !.position_value = position_value,
                !.cash = s.capital,
                !.total_value = total_value,
                !.returns = ret]]

\* What a failing iteration leaves behind.
loop_body_raising(c, a, s, d, i) ==
    IF loop_failure(c, a, s, d, i) = "ZeroDivisionError"
    THEN LET r == risk_check(c, a, s, d, i)
             s2 == handle_signal(c, a, r.self, d, i, r.signal)
         IN  [self |-> s2, df |-> update_columns_to_returns(c, s2, d, i)]
    ELSE [self |-> s, df |-> d]

\* The first failing line after the loop: the forced close reading its
\* price or dividing by the entry price, df.iloc[-1] on an empty frame, the
\* division by the initial capital.
end_failure(c, s, d) ==
    IF RLt(Zero, s.position) /\ price_read_raises(c, d, len(d) - 1)
    THEN "KeyError price"
    ELSE IF RLt(Zero, s.position) /\ s.entry_price # None
            /\ (IF s.current_trade = NoTrade THEN s.entry_price
                ELSE s.current_trade.entry_price) = Zero
    THEN "ZeroDivisionError entry_price"
    ELSE IF len(d) = 0 THEN "IndexError"
    ELSE IF c.initial_capital = Zero THEN "ZeroDivisionError"
    ELSE "none"

(***************************************************************************)
(* State: one Backtester (cfg, self) inside one call of run (args, df, i,  *)
(* pc) that returns df and metrics.  twin is a second, independent         *)
(* Backtester with the same configuration running beside it on its own     *)
(* data, where two runs are compared.  op and old record the last          *)
(* operation and the Backtester's state before it; calls counts the direct *)
(* calls of the position methods and runs the completed calls of run;      *)
(* events lists the bars whose step opened and closed a position in the    *)
(* current run, and the bars its loop processed.  other is a third         *)
(* Backtester running on its own, interleaved with this one; bot is the    *)
(* live trading bot.                                                       *)
(***************************************************************************)
VARIABLES cfg, args, self, df, i, pc, twin, op, old, calls, runs, metrics, events,
          other, bot, once

vars == <<cfg, args, self, df, i, pc, twin, op, old, calls, runs, metrics, events,
          other, bot, once>>

NoTwin == [none |-> TRUE]
NoMetrics == [none |-> TRUE]
NoEvents == [opens |-> <<>>, closes |-> <<>>, bars |-> <<>>]
NoOther == [none |-> TRUE]
NoBot == [none |-> TRUE]
NoOnce == [none |-> TRUE]

Long(s) == RLt(Zero, s.position)
Flat(s) == s.position = Zero

\* A step from s0 to s1 ended a position: the quantity left, or the in-flight
\* trade is another one.
closed(s0, s1) ==
    Long(s0) /\ (~Long(s1) \/ s1.current_trade # s0.current_trade)

\* A step from s0 to s1 began a position.
opened(s0, s1) ==
    Long(s1) /\ (~Long(s0) \/ s1.current_trade # s0.current_trade)

\* The events after a step from s0 to s1 decided at bar t.
note(ev, s0, s1, t) ==
    [opens |-> IF opened(s0, s1) THEN Append(ev.opens, t) ELSE ev.opens,
     closes |-> IF closed(s0, s1) THEN Append(ev.closes, t) ELSE ev.closes,
     bars |-> ev.bars]

\* A Backtester constructed from one of the inputs, about to be handed d by
\* run.
InstanceFrom(inputs, d) ==
    /\ \E inp \in inputs : cfg = inp.cfg /\ args = inp.args
    /\ df = d
    /\ self = reset(cfg)
    /\ old = self
    /\ i = 0
    /\ calls = 0
    /\ runs = 0
    /\ metrics = NoMetrics
    /\ events = NoEvents

\* The only Backtester of the program, and no live bot.
ConstructedFrom(inputs, d) ==
    /\ InstanceFrom(inputs, d)
    /\ other = NoOther
    /\ bot = NoBot
    /\ once = NoOnce

Constructed(d) == ConstructedFrom(Inputs, d)

Init ==
    /\ \E n \in 1 .. MaxBars : \E d \in DataOfLen(n) : Constructed(d)
    /\ pc = "new"
    /\ op = "init"
    /\ twin = NoTwin

\* run entered with its state left as the run before left it.
RunStart_no_reset ==
    /\ pc = "new"
    /\ self' = self
    /\ df' = add_columns(cfg, df)
    /\ twin' = IF twin = NoTwin THEN twin
               ELSE [self |-> twin.self, df |-> add_columns(cfg, twin.df)]
    /\ i' = 1
    /\ pc' = "loop"
    /\ op' = "start"
    /\ old' = self
    /\ metrics' = NoMetrics
    /\ events' = NoEvents
    /\ UNCHANGED <<cfg, args, calls, runs, other, bot, once>>

\* The loop entered at bar 0.
RunStart_at_bar_0 ==
    /\ pc = "new"
    /\ self' = reset(cfg)
    /\ df' = add_columns(cfg, df)
    /\ twin' = IF twin = NoTwin THEN twin
               ELSE [self |-> reset(cfg), df |-> add_columns(cfg, twin.df)]
    /\ i' = 0
    /\ pc' = "loop"
    /\ op' = "start"
    /\ old' = self
    /\ metrics' = NoMetrics
    /\ events' = NoEvents
    /\ UNCHANGED <<cfg, args, calls, runs, other, bot, once>>

\* run, up to the loop: reset, the strategy's signals, the tracking columns.
RunStart ==
    /\ pc = "new"
    /\ self' = reset(cfg)
    /\ df' = add_columns(cfg, df)
    /\ twin' = IF twin = NoTwin THEN twin
               ELSE [self |-> reset(cfg), df |-> add_columns(cfg, twin.df)]
    /\ i' = 1
    /\ pc' = "loop"
    /\ op' = "start"
    /\ old' = self
    /\ metrics' = NoMetrics
    /\ events' = NoEvents
    /\ UNCHANGED <<cfg, args, calls, runs, other, bot, once>>

\* The loop moving on by two bars.
next_bar_skips(k) == k + 2

\* range(1, len(df)): the bar after bar k.
next_bar(k) == k + 1

\* for i in range(1, len(df)): one bar.
BarStep ==
    /\ pc = "loop"
    /\ i < len(df)
    /\ loop_failure(cfg, args, self, df, i) = "none"
    /\ LET r == loop_body(cfg, args, self, df, i)
       IN  /\ self' = r.self
           /\ df' = r.df
           /\ events' = [note(events, self, r.self, i) EXCEPT !.bars = Append(@, i)]
    /\ twin' = IF twin = NoTwin THEN twin
               ELSE loop_body(cfg, args, twin.self, twin.df, i)
    /\ i' = next_bar(i)
    /\ op' = "bar"
    /\ old' = self
    /\ UNCHANGED <<cfg, args, pc, calls, runs, metrics, other, bot, once>>

\* After the loop: the forced close, then the metrics, and run returns.
RunEnd ==
    /\ pc = "loop"
    /\ i >= len(df)
    /\ end_failure(cfg, self, df) = "none"
    /\ LET s2 == end_of_period(cfg, self, df)
       IN  /\ self' = s2
           /\ metrics' = calculate_metrics(cfg, s2, df)
           /\ events' = note(events, self, s2, len(df) - 1)
    /\ twin' = IF twin = NoTwin THEN twin
               ELSE LET s2 == end_of_period(cfg, twin.self, twin.df)
                    IN  [self |-> s2, df |-> twin.df,
                         metrics |-> calculate_metrics(cfg, s2, twin.df)]
    /\ pc' = "done"
    /\ op' = "end"
    /\ old' = self
    /\ runs' = runs + 1
    /\ UNCHANGED <<cfg, args, df, i, calls, other, bot, once>>

Next == RunStart \/ BarStep \/ RunEnd

Spec == Init /\ [][Next]_vars

\* run is an ordinary call: once entered it keeps executing.
InitFair ==
    /\ \E n \in 1 .. MaxBars - 1 : \E d \in DataOfLen(n) : Constructed(d)
    /\ pc = "new"
    /\ op = "init"
    /\ twin = NoTwin

\* The guards of RunStart, BarStep and RunEnd: ENABLED <<Next>>_vars, since
\* each of the three changes pc or i.
NextEnabled ==
    \/ pc = "new"
    \/ pc = "loop" /\ i < len(df) /\ loop_failure(cfg, args, self, df, i) = "none"
    \/ pc = "loop" /\ i >= len(df) /\ end_failure(cfg, self, df) = "none"

\* WF_vars(Next), with ENABLED <<Next>>_vars written out as NextEnabled.
SpecFair ==
    InitFair /\ [][Next]_vars /\ ([]<>~NextEnabled \/ []<><<Next>>_vars)

(***************************************************************************)
(* Two runs with one configuration, in step, on frames of equal length     *)
(* that differ in their last row only.                                     *)
(***************************************************************************)
LastRowVariants(d) ==
    {[d EXCEPT ![len(d) - 1] = Row(len(d) - 1, o, c, sg)] :
        o \in Prices, c \in Prices, sg \in Signals}

InitTwin ==
    /\ \E n \in 2 .. MaxBars - 1 : \E d \in DataOfLen(n) : Constructed(d)
    /\ pc = "new"
    /\ op = "init"
    /\ \E e \in LastRowVariants(df) : twin = [self |-> reset(cfg), df |-> e]

SpecTwin == InitTwin /\ [][Next]_vars

(***************************************************************************)
(* The position and ledger state machine on its own: a caller invoking     *)
(* _open_position and _close_position directly, in any order, on a         *)
(* constructed Backtester.                                                 *)
(***************************************************************************)
MaxCalls == 3

CallOpen ==
    /\ pc = "api"
    /\ calls < MaxCalls
    /\ \E index \in DOMAIN df :
          self' = open_position(cfg, self, df, index, "buy", args.position_size)
    /\ op' = "open_position"
    /\ old' = self
    /\ calls' = calls + 1
    /\ UNCHANGED <<cfg, args, df, i, pc, twin, runs, metrics, events, other, bot, once>>

CallClose ==
    /\ pc = "api"
    /\ calls < MaxCalls
    /\ \E index \in DOMAIN df :
          self' = close_position(cfg, self, df, index, "Exit")
    /\ op' = "close_position"
    /\ old' = self
    /\ calls' = calls + 1
    /\ UNCHANGED <<cfg, args, df, i, pc, twin, runs, metrics, events, other, bot, once>>

InitSM ==
    /\ \E n \in 1 .. MaxBars - 1 : \E d \in DataOfLen(n) : Constructed(d)
    /\ pc = "api"
    /\ op = "init"
    /\ twin = NoTwin

NextSM == CallOpen \/ CallClose

SpecSM == InitSM /\ [][NextSM]_vars

(***************************************************************************)
(* One Backtester used for several runs, as a parameter sweep does: after  *)
(* a run returns, run is called again with other data, beside a freshly    *)
(* constructed Backtester (twin) given the same data.                      *)
(***************************************************************************)
MaxRuns == 3

Rerun ==
    /\ pc = "done"
    /\ runs < MaxRuns
    /\ \E n \in 1 .. MaxBars - 1 : \E d \in DataOfLen(n) :
          /\ df' = d
          /\ twin' = [self |-> reset(cfg), df |-> d]
    /\ pc' = "new"
    /\ op' = "rerun"
    /\ old' = self
    /\ i' = 0
    /\ UNCHANGED <<cfg, args, self, calls, runs, metrics, events, other, bot, once>>

InitRerun ==
    /\ \E n \in 1 .. MaxBars - 2 : \E d \in DataOfLen(n) : Constructed(d)
    /\ pc = "new"
    /\ op = "init"
    /\ twin = NoTwin

NextRerun == Next \/ Rerun

SpecRerun == InitRerun /\ [][NextRerun]_vars

(***************************************************************************)
(* run handed what it should refuse: a configuration out of range with     *)
(* well-formed data, or malformed data with a configuration in range.      *)
(***************************************************************************)
InvalidInputs ==
    {[cfg |-> [Config(Zero, Zero, lat, "next_open") EXCEPT !.initial_capital = cap],
      args |-> RunArgs(None, None, One)] :
        lat \in Latencies, cap \in {Zero, Rat(-InitialCapital, 1)}}
    \cup
    {[cfg |-> Config(com, slip, 0, "next_open"), args |-> RunArgs(None, None, One)] :
        com \in {Rat(-1, 2)}, slip \in {Zero}}
    \cup
    {[cfg |-> Config(com, slip, 0, "next_open"), args |-> RunArgs(None, None, One)] :
        com \in {Zero}, slip \in {Rat(-1, 4)}}
    \cup
    {[cfg |-> Config(Zero, Zero, 0, "next_open"), args |-> RunArgs(None, None, size)] :
        size \in {Zero, RNeg(One), Rat(2, 1)}}

without_open(d) == [t \in DOMAIN d |-> [d[t] EXCEPT !.open = NoColumn]]
without_close(d) == [t \in DOMAIN d |-> [d[t] EXCEPT !.close = NoColumn]]
backwards(d) == [t \in DOMAIN d |-> [d[t] EXCEPT !.timestamp = len(d) - 1 - t]]

\* Empty data, data without its open or close column, data whose timestamps
\* decrease.
MalformedData ==
    {<<>>}
    \cup {without_open(d) : d \in UNION {DataOfLen(n) : n \in 1 .. MaxBars - 1}}
    \cup {without_close(d) : d \in UNION {DataOfLen(n) : n \in 1 .. MaxBars - 1}}
    \cup {backwards(d) : d \in UNION {DataOfLen(n) : n \in 2 .. MaxBars - 1}}

InitBadInput ==
    /\ \/ \E n \in 1 .. MaxBars - 1 : \E d \in DataOfLen(n) :
             ConstructedFrom(InvalidInputs, d)
       \/ \E d \in MalformedData : Constructed(d)
    /\ pc = "new"
    /\ op = "init"
    /\ twin = NoTwin

\* An iteration of the loop raising: run is left by the exception.
BarRaise ==
    /\ pc = "loop"
    /\ i < len(df)
    /\ loop_failure(cfg, args, self, df, i) # "none"
    /\ LET r == loop_body_raising(cfg, args, self, df, i)
       IN  self' = r.self /\ df' = r.df
    /\ pc' = "raised in loop"
    /\ op' = "bar"
    /\ old' = self
    /\ UNCHANGED <<cfg, args, i, twin, calls, runs, metrics, events, other, bot, once>>

\* The forced close or calculate_metrics raising after the loop.
EndRaise ==
    /\ pc = "loop"
    /\ i >= len(df)
    /\ end_failure(cfg, self, df) # "none"
    /\ self' = IF end_failure(cfg, self, df) = "KeyError price"
               THEN self
               ELSE IF end_failure(cfg, self, df) = "ZeroDivisionError entry_price"
               THEN LET gross_proceeds ==
                            RMul(self.position,
                                 get_execution_price(cfg, df, len(df) - 1, "sell"))
                    IN  [self EXCEPT !.capital =
                            cash_after_close(self.capital, gross_proceeds,
                                             RMul(gross_proceeds, cfg.commission))]
               ELSE end_of_period(cfg, self, df)
    /\ pc' = IF end_failure(cfg, self, df)
                  \in {"KeyError price", "ZeroDivisionError entry_price"}
             THEN "raised in close" ELSE "raised in metrics"
    /\ op' = "end"
    /\ old' = self
    /\ UNCHANGED <<cfg, args, df, i, twin, calls, runs, metrics, events, other, bot, once>>

NextBadInput == Next \/ BarRaise \/ EndRaise

SpecBadInput == InitBadInput /\ [][NextBadInput]_vars

(***************************************************************************)
(* Runs without costs on four bars priced 100 or 110 with open = close,    *)
(* at every latency: the frames around the worked example.                 *)
(***************************************************************************)
FixturePrices == {Rat(100, 1), Rat(110, 1)}

FixtureData ==
    {[t \in 0 .. 3 |-> Row(t, p[t], p[t], sg[t])] :
        p \in [0 .. 3 -> FixturePrices], sg \in [0 .. 3 -> Signals]}

FixtureInputs ==
    {[cfg |-> Config(Zero, Zero, lat, "next_open"), args |-> RunArgs(None, None, One)] :
        lat \in Latencies}

InitFixture ==
    /\ \E d \in FixtureData : ConstructedFrom(FixtureInputs, d)
    /\ pc = "new"
    /\ op = "init"
    /\ twin = NoTwin

SpecFixture == InitFixture /\ [][Next]_vars

(***************************************************************************)
(* Degenerate prices: frames priced from a given set after row 0, for the  *)
(* position methods called directly on prices -1, 0 and 1, and for runs on *)
(* prices 0 .. MaxPrice.                                                   *)
(***************************************************************************)
DataOver(prices, n) ==
    {[t \in 0 .. n - 1 |->
        IF t = 0
        THEN Row(0, One, One, sg)
        ELSE Row(t, f[t].open, f[t].close, f[t].signal)] :
        sg \in Signals,
        f \in [1 .. n - 1 -> [open : prices, close : prices, signal : Signals]]}

SignedPrices == {RNeg(One), Zero, One}

NonNegativePrices == {Rat(p, 1) : p \in 0 .. MaxPrice}

InitSMZero ==
    /\ \E n \in 1 .. MaxBars - 2 : \E d \in DataOver(SignedPrices, n) : Constructed(d)
    /\ pc = "api"
    /\ op = "init"
    /\ twin = NoTwin

SpecSMZero == InitSMZero /\ [][NextSM]_vars

InitZero ==
    /\ \E n \in 1 .. MaxBars - 1 : \E d \in DataOver(NonNegativePrices, n) :
          Constructed(d)
    /\ pc = "new"
    /\ op = "init"
    /\ twin = NoTwin

SpecZero == InitZero /\ [][Next]_vars

(***************************************************************************)
(* Two Backtester instances, as a parameter sweep constructs them (one per *)
(* combination): the first is the instance of the variables above, the     *)
(* second is held in other.  Their runs advance bar by bar in any order.   *)
(***************************************************************************)
\* The attributes a method of the second instance reads, were they
\* attributes of the class: those the first instance wrote.
attributes_of_class(own, first) == first

\* self.capital, self.position, self.entry_price, self.trades and
\* self.current_trade are assigned on the instance: a method reads its own.
attributes(own, first) == own

PairLen == MaxBars - 1

\* The first instance runs without costs, with or without a stop-loss; the
\* second pays a commission.
PairInputs ==
    {inp \in Inputs : /\ inp.cfg.latency_bars = 0
                      /\ inp.cfg.commission = Zero
                      /\ inp.args.take_profit = None}

OtherInputs ==
    {inp \in Inputs : inp.cfg.latency_bars = 0 /\ inp.cfg.commission # Zero}

PairData ==
    {d \in DataOfLen(PairLen) :
        d[0].signal = 0 /\ \A t \in DOMAIN d : d[t].open = d[t].close}

InitPair ==
    /\ \E d \in PairData : InstanceFrom(PairInputs, d)
    /\ pc = "new"
    /\ op = "init"
    /\ twin = NoTwin
    /\ bot = NoBot
    /\ once = NoOnce
    /\ \E inp \in OtherInputs : \E d \in PairData :
          other = [cfg |-> inp.cfg, args |-> inp.args, self |-> reset(inp.cfg),
                   df |-> d, i |-> 0, pc |-> "new", metrics |-> NoMetrics,
                   overlap |-> FALSE]

\* run of the second instance, up to the loop.
OtherStart ==
    /\ other # NoOther
    /\ other.pc = "new"
    /\ other' = [other EXCEPT !.self = reset(other.cfg),
                              !.df = add_columns(other.cfg, other.df),
                              !.i = 1,
                              !.pc = "loop"]
    /\ UNCHANGED <<cfg, args, self, df, i, pc, twin, op, old, calls, runs, metrics,
                   events, bot, once>>

\* One bar of the second instance's loop.
OtherBar ==
    /\ other # NoOther
    /\ other.pc = "loop"
    /\ other.i < len(other.df)
    /\ LET s == attributes(other.self, self)
       IN  /\ loop_failure(other.cfg, other.args, s, other.df, other.i) = "none"
           /\ LET r == loop_body(other.cfg, other.args, s, other.df, other.i)
              IN  other' = [other EXCEPT
                      !.self = r.self,
                      !.df = r.df,
                      !.i = next_bar(other.i),
                      !.overlap = @ \/ (pc = "loop" /\ 1 < i /\ i < len(df))]
    /\ UNCHANGED <<cfg, args, self, df, i, pc, twin, op, old, calls, runs, metrics,
                   events, bot, once>>

\* The second instance's forced close and metrics.
OtherEnd ==
    /\ other # NoOther
    /\ other.pc = "loop"
    /\ other.i >= len(other.df)
    /\ LET s == attributes(other.self, self)
       IN  /\ end_failure(other.cfg, s, other.df) = "none"
           /\ LET s2 == end_of_period(other.cfg, s, other.df)
              IN  other' = [other EXCEPT
                      !.self = s2,
                      !.metrics = calculate_metrics(other.cfg, s2, other.df),
                      !.pc = "done"]
    /\ UNCHANGED <<cfg, args, self, df, i, pc, twin, op, old, calls, runs, metrics,
                   events, bot, once>>

NextPair == RunStart \/ BarStep \/ RunEnd \/ OtherStart \/ OtherBar \/ OtherEnd

SpecPair == InitPair /\ [][NextPair]_vars

\* run executed alone, from the reset to the returned frame and metrics.
RECURSIVE run_loop(_, _, _, _, _)
run_loop(c, a, s, d, k) ==
    IF k >= len(d)
    THEN [self |-> s, df |-> d]
    ELSE LET r == loop_body(c, a, s, d, k)
         IN  run_loop(c, a, r.self, r.df, next_bar(k))

run(c, a, data) ==
    LET r == run_loop(c, a, reset(c), add_columns(c, data), 1)
        s2 == end_of_period(c, r.self, r.df)
    IN  [self |-> s2, df |-> r.df, metrics |-> calculate_metrics(c, s2, r.df)]

(***************************************************************************)
(* Runs at every latency up to one bar more than MaxLatency, without costs.*)
(***************************************************************************)
LatencyInputs ==
    {[cfg |-> Config(Zero, Zero, lat, "next_open"), args |-> RunArgs(sl, tp, One)] :
        lat \in 0 .. MaxLatency + 1, sl \in StopLosses, tp \in TakeProfits}

InitLatency ==
    /\ \E n \in 1 .. MaxBars : \E d \in DataOfLen(n) : ConstructedFrom(LatencyInputs, d)
    /\ pc = "new"
    /\ op = "init"
    /\ twin = NoTwin

SpecLatency == InitLatency /\ [][Next]_vars

(***************************************************************************)
(* run_strategy_once (main.py): a strategy, the caller's stop-loss and     *)
(* take-profit, and the run they lead to.  once holds the call's           *)
(* arguments.                                                              *)
(***************************************************************************)
\* BuyAndHoldStrategy declares allow_stop_take = False; a strategy without
\* the attribute counts as allowing the thresholds (getattr's default).
BuyAndHoldStrategy == [name |-> "BuyAndHold", allow_stop_take |-> FALSE]
SignalStrategy == [name |-> "Signal", allow_stop_take |-> TRUE]

\* The caller's threshold handed to run whatever the strategy declares.
strategy_threshold_passed(strategy, value) == value

\* strategy_stop_loss, strategy_take_profit.
strategy_threshold(strategy, value) ==
    IF strategy.allow_stop_take THEN value ELSE None

\* generate_signals: Buy & Hold buys once, on row 1 if there is one; the
\* signals of any other strategy are those of the rows.
generate_signals(strategy, d) ==
    IF strategy = BuyAndHoldStrategy
    THEN [t \in DOMAIN d |->
             [d[t] EXCEPT !.signal = IF len(d) > 1 /\ t = 1 THEN 1 ELSE 0]]
    ELSE d

\* The price rows before a strategy has seen them.
PriceData(n) == {d \in DataOfLen(n) : \A t \in DOMAIN d : d[t].signal = 0}

OnceConfigs == {inp.cfg : inp \in Inputs}

\* run_strategy_once called with a Backtester, the rows, a strategy and the
\* caller's thresholds; run takes its default position_size.
InitOnce ==
    /\ \E c \in OnceConfigs, sl \in StopLosses, tp \in TakeProfits :
       \E strategy \in {BuyAndHoldStrategy, SignalStrategy} :
       \E n \in 1 .. MaxBars :
       \E d \in IF strategy = BuyAndHoldStrategy THEN PriceData(n)
                 ELSE IF n <= 2 THEN DataOfLen(n) ELSE {} :
          /\ cfg = c
          /\ args = RunArgs(strategy_threshold(strategy, sl),
                            strategy_threshold(strategy, tp), One)
          /\ df = generate_signals(strategy, d)
          /\ once = [strategy |-> strategy, stop_loss |-> sl, take_profit |-> tp]
    /\ self = reset(cfg)
    /\ old = self
    /\ i = 0
    /\ calls = 0
    /\ runs = 0
    /\ metrics = NoMetrics
    /\ events = NoEvents
    /\ other = NoOther
    /\ bot = NoBot
    /\ pc = "new"
    /\ op = "init"
    /\ twin = NoTwin

SpecOnce == InitOnce /\ [][Next]_vars

(***************************************************************************)
(* LiveTradingBot (run_live_bot.py): the position, the trade log and one   *)
(* action per iteration of the loop of run.  The exchange is the           *)
(* environment: the latest candle and its signal, the ticker price, the    *)
(* free balance and the outcome of each order are inputs of the iteration. *)
(***************************************************************************)
MaxIterations == 3

BotPrices == {Rat(p, 1) : p \in {95, 100, 101, 105}}

max_position_size == Rat(95, 100)
stop_loss_pct == Rat(2, 100)
take_profit_pct == Rat(5, 100)

\* available_capital = 10000 in test mode.
TestCapital == 10000

\* The free USDT balance of a live account.
BotBalances == {0, TestCapital}

Million == 1000000

NoPosition == [none |-> TRUE]

\* round(n / d, 6), for n / d >= 0 in lowest terms.
round6(n, d) ==
    LET whole == n \div d
        micro == (2 * (n % d) * Million + d) \div (2 * d)
    IN  Rat(whole * Million + micro, Million)

calculate_position_size(capital, price) ==
    LET position_value == RMul(capital, max_position_size)
        quantity == RDiv(position_value, price)
    IN  round6(quantity[1], quantity[2])

\* The result of check_stop_loss_take_profit at a ticker price.
check_stop_loss_take_profit(b, current_price) ==
    IF b.position = NoPosition THEN "False"
    ELSE LET entry_price == b.position.entry_price
             price_change == RDiv(RSub(current_price, entry_price), entry_price)
         IN  IF RLe(price_change, RNeg(stop_loss_pct)) THEN "STOP_LOSS"
             ELSE IF RLe(take_profit_pct, price_change) THEN "TAKE_PROFIT"
             ELSE "False"

\* closes counts the positions the bot has closed.
\* What an iteration did: the trigger, whether the trigger's order closed the
\* position, the orders sent with their outcomes, the signal read and
\* whether an exception ended the iteration.
NoIteration ==
    [data |-> FALSE, trigger |-> "False", risk_closed |-> FALSE, orders |-> <<>>,
     signal |-> 0, raised |-> FALSE, before |-> NoPosition]

\* An order taken as executed unless the call raised.
order_assumed(outcome) == outcome # "raised"

\* if order: place_order returned an order, not None.
order_succeeded(outcome) == outcome = "filled"

order(side, quantity, outcome) ==
    [side |-> side, quantity |-> quantity, outcome |-> outcome]

\* Step 4 of the loop: the stop-loss/take-profit check and its SELL order.
bot_risk_step(b, current_price, outcome) ==
    LET sl_tp_trigger == check_stop_loss_take_profit(b, current_price)
        checked == [b EXCEPT !.last.trigger = sl_tp_trigger]
    IN  IF sl_tp_trigger # "False" /\ b.position # NoPosition
        THEN LET sent == [checked EXCEPT !.last.orders =
                              Append(@, order("SELL", b.position.quantity, outcome))]
             IN  IF outcome = "raised" THEN [sent EXCEPT !.last.raised = TRUE]
                 ELSE IF order_succeeded(outcome)
                 THEN [sent EXCEPT !.position = NoPosition,
                                   !.closes = @ + 1,
                                   !.last.risk_closed = TRUE]
                 ELSE sent
        ELSE checked

\* Step 5 of the loop: the latest signal.
bot_signal_step(b, current_price, signal, outcome, available_capital) ==
    IF signal = 1 /\ b.position = NoPosition
    THEN LET quantity == calculate_position_size(available_capital, current_price)
             sent == [b EXCEPT !.last.orders =
                          Append(@, order("BUY", quantity, outcome))]
         IN  IF outcome = "raised" THEN [sent EXCEPT !.last.raised = TRUE]
             ELSE IF order_succeeded(outcome)
             THEN [sent EXCEPT !.position =
                       [entry_price |-> current_price,
                        quantity |-> quantity,
                        entry_time |-> b.iteration]]
             ELSE sent
    ELSE IF signal = -1 /\ b.position # NoPosition
    THEN LET sent == [b EXCEPT !.last.orders =
                          Append(@, order("SELL", b.position.quantity, outcome))]
             entry_price == b.position.entry_price
             pnl == RMul(RSub(current_price, entry_price), b.position.quantity)
             pnl_pct == RMul(RDiv(RSub(current_price, entry_price), entry_price),
                             Hundred)
         IN  IF outcome = "raised" THEN [sent EXCEPT !.last.raised = TRUE]
             ELSE IF order_succeeded(outcome)
             THEN [sent EXCEPT
                      !.trades_log = Append(@,
                          [entry_time |-> b.position.entry_time,
                           exit_time |-> b.iteration,
                           entry_price |-> entry_price,
                           exit_price |-> current_price,
                           quantity |-> b.position.quantity,
                           pnl |-> pnl,
                           pnl_pct |-> pnl_pct]),
                      !.closes = @ + 1,
                      !.position = NoPosition]
             ELSE sent
    ELSE b

\* One iteration of the while loop of run.  in holds what the exchange
\* answers: data_ok (get_latest_data returned a frame), close and signal of
\* the latest candle, ticker_ok and ticker (get_symbol_ticker), the outcomes
\* of the orders of steps 4 and 5 and the free balance.
bot_iteration(b, in) ==
    LET entered == [b EXCEPT !.iteration = @ + 1,
                             !.last = [NoIteration EXCEPT !.data = in.data_ok,
                                                          !.signal = in.signal,
                                                          !.before = b.position]]
    IN  IF ~in.data_ok THEN [entered EXCEPT !.last.signal = 0]
        ELSE IF b.position # NoPosition /\ ~in.ticker_ok
        THEN [entered EXCEPT !.last.raised = TRUE]
        ELSE LET risked == bot_risk_step(entered, in.ticker, in.risk_order)
             IN  IF risked.last.raised THEN risked
                 ELSE bot_signal_step(risked, in.close, in.signal, in.signal_order,
                                      in.balance)

BotInputs ==
    [data_ok : BOOLEAN, close : BotPrices, signal : Signals,
     ticker_ok : BOOLEAN, ticker : BotPrices,
     risk_order : {"filled", "rejected", "raised"},
     signal_order : {"filled", "rejected", "raised"},
     balance : {Rat(c, 1) : c \in BotBalances}]

\* In test mode place_order returns an order unless the ticker call raises,
\* and the capital is the simulated one.
BotInputsOf(b) ==
    {in \in BotInputs :
        b.test_mode => /\ in.risk_order # "rejected"
                       /\ in.signal_order # "rejected"
                       /\ in.balance = Rat(TestCapital, 1)}

InitBot ==
    /\ \E d \in DataOfLen(1) :
          d[0].signal = 0
          /\ InstanceFrom({inp \in FixtureInputs : inp.cfg.latency_bars = 0}, d)
    /\ pc = "new"
    /\ op = "init"
    /\ twin = NoTwin
    /\ other = NoOther
    /\ once = NoOnce
    /\ \E mode \in BOOLEAN :
          bot = [test_mode |-> mode, position |-> NoPosition, trades_log |-> <<>>,
                 closes |-> 0, iteration |-> 0, pc |-> "running",
                 last |-> NoIteration]

\* while datetime.now() < end_time: one iteration.
BotIteration ==
    /\ bot # NoBot
    /\ bot.pc = "running"
    /\ bot.iteration < MaxIterations
    /\ \E in \in BotInputsOf(bot) : bot' = bot_iteration(bot, in)
    /\ UNCHANGED <<cfg, args, self, df, i, pc, twin, op, old, calls, runs, metrics,
                   events, other, once>>

\* The duration has passed: print_summary.
BotSummary ==
    /\ bot # NoBot
    /\ bot.pc = "running"
    /\ bot' = [bot EXCEPT !.pc = "stopped"]
    /\ UNCHANGED <<cfg, args, self, df, i, pc, twin, op, old, calls, runs, metrics,
                   events, other, once>>

NextBot == BotIteration \/ BotSummary

SpecBot == InitBot /\ [][NextBot]_vars

(***************************************************************************)
(* Properties.                                                             *)
(***************************************************************************)
\* The bar the last step of the loop processed.
bar == i - 1

\* The unrealized return of an open position s on the close of bar t.
Unrealized(s, t) == RDiv(RSub(df[t].close, s.entry_price), s.entry_price)

LastTrade(s) == s.trades[Len(s.trades)]

Closes(s0, s1) == Len(s1.trades) - Len(s0.trades)

Opens(s0, s1) ==
    IF s1.current_trade # NoTrade
       /\ (s0.current_trade = NoTrade \/ Len(s1.trades) > Len(s0.trades))
    THEN 1 ELSE 0

\* C1: in every snapshot of a run, bar 0 included, total equity equals cash
\* plus position quantity times the bar's close.
C1_EquityIdentity ==
    pc # "new" =>
        \A t \in DOMAIN df :
            df[t].total_value = RAdd(df[t].cash, RMul(df[t].position_qty, df[t].close))

C1_Witness ==
    /\ pc = "done"
    /\ \E t \in DOMAIN df : df[t].position_qty # Zero /\ df[t].open # df[t].close

\* C2: when run returns the simulator is flat: quantity 0, entry price unset,
\* no in-flight trade record.
C2_FlatAtReturn ==
    pc = "done" =>
        /\ self.position = Zero
        /\ self.entry_price = None
        /\ self.current_trade = NoTrade

C2_Witness ==
    /\ pc = "done"
    /\ Len(self.trades) > 0
    /\ LastTrade(self).exit_reason = "End of Period"
    /\ old.position # Zero

\* C3: no look-ahead: two runs with one configuration on frames of equal
\* length that agree on rows 0..t have equal snapshots for rows 0..t.
SnapshotOf(r) ==
    <<r.cash, r.position_qty, r.position_value, r.total_value, r.returns,
      r.cumulative_returns, r.peak, r.drawdown>>

AgreeUpTo(d, e, t) ==
    \A u \in 0 .. t :
        /\ d[u].open = e[u].open
        /\ d[u].close = e[u].close
        /\ d[u].signal = e[u].signal

C3_NoLookAhead ==
    (pc # "new" /\ twin # NoTwin) =>
        \A t \in DOMAIN df :
            (t < i /\ AgreeUpTo(df, twin.df, t)) =>
                \A u \in 0 .. t : SnapshotOf(df[u]) = SnapshotOf(twin.df[u])

\* C4: over the bars processed so far the running peak never decreases and
\* is at least the total equity, and the drawdown is at most 0.
C4_PeakAndDrawdown ==
    pc # "new" =>
        \A t \in DOMAIN df :
            t < i =>
                /\ t > 0 => RLe(df[t - 1].peak, df[t].peak)
                /\ RLe(df[t].total_value, df[t].peak)
                /\ RLe(df[t].drawdown, Zero)

C4_Witness ==
    /\ pc = "done"
    /\ \E t \in DOMAIN df : t > 0 /\ RLt(df[t - 1].peak, df[t].peak)
    /\ \E t \in DOMAIN df : RLt(df[t].drawdown, Zero)

\* C5: total equity at bar 0 is the initial capital, and at every bar the
\* drawdown is above -1 and total equity is strictly positive.
C5_EquityPositive ==
    pc # "new" =>
        /\ df[0].total_value = cfg.initial_capital
        /\ \A t \in DOMAIN df :
              /\ RLt(Rat(-1, 1), df[t].drawdown)
              /\ RLt(Zero, df[t].total_value)

\* C6: the quantity is never negative and is 0 exactly when the entry price
\* is unset.
C6_QuantityAndEntry ==
    /\ RLe(Zero, self.position)
    /\ self.position = Zero <=> self.entry_price = None

C6_Witness ==
    /\ pc = "loop"
    /\ Long(self)
    /\ Len(self.trades) > 0

\* C7: _close_position invoked while flat changes nothing: cash, quantity,
\* entry price, in-flight trade and ledger are as before the call.
C7_CloseWhileFlat ==
    (op = "close_position" /\ Flat(old)) => self = old

C7_Witness ==
    /\ op = "close_position"
    /\ Flat(old)
    /\ Len(old.trades) > 0

\* C8: _open_position invoked while long changes nothing: cash, quantity,
\* entry price, in-flight trade and ledger are as before the call.
C8_OpenWhileLong ==
    (op = "open_position" /\ Long(old)) => self = old

\* C9: with a stop-loss set, a position open at a bar whose close puts its
\* return at or below -|stop_loss| is closed in that bar's step with reason
\* Stop Loss, whatever the bar's signal; no Signal Exit trade comes of it.
StopLossHit(s, t) ==
    /\ args.stop_loss # None
    /\ Long(s)
    /\ RLe(Unrealized(s, t), RNeg(RAbs(args.stop_loss)))

C9_StopLossFirst ==
    (op = "bar" /\ StopLossHit(old, bar)) =>
        /\ Closes(old, self) = 1
        /\ LastTrade(self).exit_reason = "Stop Loss"
        /\ LastTrade(self).entry_price = old.entry_price
        /\ LastTrade(self).quantity = old.position

C9_Witness ==
    /\ op = "bar"
    /\ StopLossHit(old, bar)
    /\ df[bar].signal = -1
    /\ LastTrade(self).exit_reason = "Stop Loss"

\* C10: a bar's step makes at most one position transition, and a bar on
\* which a stop-loss or take-profit closed the position ends flat whatever
\* its signal.
RiskClosed(s0, s1) ==
    /\ Closes(s0, s1) >= 1
    /\ s1.trades[Len(s0.trades) + 1].exit_reason \in {"Stop Loss", "Take Profit"}

C10_OneTransitionPerBar ==
    op = "bar" =>
        /\ Closes(old, self) + Opens(old, self) <= 1
        /\ RiskClosed(old, self) =>
              /\ Flat(self)
              /\ df[bar].position_qty = Zero

C10_Witness ==
    /\ op = "bar"
    /\ RiskClosed(old, self)
    /\ df[bar].signal = 1
    /\ Flat(self)

IsPrefix(p, q) == Len(p) <= Len(q) /\ \A k \in 1 .. Len(p) : q[k] = p[k]

Min(a, b) == IF a <= b THEN a ELSE b

\* The bar at which a decision taken at bar t executes.
ExecBar(t) == Min(t + cfg.latency_bars, len(df) - 1)

\* The reference price of bar t under the configured rule.
Ref(t) == IF cfg.execution_mode = "next_open" THEN df[t].open ELSE df[t].close

\* C11: during and after a run the ledger holds one record per completed
\* open->close cycle, in the order the cycles completed: its length is the
\* number of closes (the forced one included), the number of opens is that
\* number plus one while a position is open, so the three agree when run
\* returns, and record k enters at the bar open k executed at and exits at
\* the bar close k executed at.
C11_LedgerCountsCycles ==
    pc \in {"loop", "done"} =>
        /\ Len(self.trades) = Len(events.closes)
        /\ Len(events.opens) = Len(events.closes) + (IF Long(self) THEN 1 ELSE 0)
        /\ pc = "done" => Len(self.trades) = Len(events.opens)
        /\ \A k \in 1 .. Len(self.trades) :
              /\ k <= Len(events.opens) /\ k <= Len(events.closes)
              /\ self.trades[k].entry_date = df[ExecBar(events.opens[k])].timestamp
              /\ self.trades[k].exit_date = df[ExecBar(events.closes[k])].timestamp

\* A run returned two records, the second from the forced close.
C11_Witness ==
    /\ pc = "done"
    /\ Len(self.trades) = 2
    /\ Len(events.opens) = 2
    /\ LastTrade(self).exit_reason = "End of Period"

\* C12: the ledger is append-only within a run: each step of the run leaves
\* the ledger it found as a prefix of the ledger it leaves, records
\* unchanged, whether the step opened or closed a position or neither.
C12_AppendOnly ==
    op \in {"bar", "end"} => IsPrefix(old.trades, self.trades)

\* A second record was appended behind a first one, and a position was
\* opened with a record in the ledger.
C12_Witness ==
    /\ op \in {"bar", "end"}
    /\ Len(old.trades) = 1
    /\ Len(self.trades) = 2
    /\ self.trades[2] # self.trades[1]

\* C13: a run on a Backtester that completed earlier runs yields the ledger,
\* snapshots and metrics of the same run on a freshly constructed Backtester
\* with the same configuration.
C13_RerunReproducible ==
    (twin # NoTwin /\ pc \in {"loop", "done"}) =>
        /\ self = twin.self
        /\ df = twin.df
        /\ pc = "done" => metrics = twin.metrics

\* A third run returned with a trade, on a Backtester whose earlier runs had
\* left a ledger and another cash balance.
C13_Witness ==
    /\ twin # NoTwin
    /\ pc = "done"
    /\ runs = MaxRuns
    /\ Len(self.trades) >= 1
    /\ metrics.total_trades >= 1

\* The configuration is out of the range the simulator accepts.
InvalidConfiguration ==
    \/ RLe(cfg.initial_capital, Zero)
    \/ RLt(cfg.commission, Zero)
    \/ RLt(cfg.slippage, Zero)
    \/ RLe(args.position_size, Zero)
    \/ RLt(One, args.position_size)

\* C14: with an invalid configuration run is rejected before it starts: no
\* bar is processed, the Backtester's state does not change and no result is
\* returned.
C14_InvalidConfigurationRejected ==
    InvalidConfiguration =>
        /\ op # "bar"
        /\ pc \notin {"done", "raised in loop", "raised in close", "raised in metrics"}
        /\ self = reset(cfg)

\* The data is malformed: empty, without its open or close column, or with
\* timestamps that do not increase.
MalformedInput ==
    \/ len(df) = 0
    \/ \E t \in DOMAIN df : df[t].open = NoColumn \/ df[t].close = NoColumn
    \/ \E t, u \in DOMAIN df : t < u /\ df[t].timestamp >= df[u].timestamp

\* C15: malformed input is rejected before the loop: no iteration runs on
\* it, no exception leaves an iteration or the metrics step, and run returns
\* no result.
C15_MalformedInputRejected ==
    MalformedInput =>
        /\ op # "bar"
        /\ pc \notin {"done", "raised in loop", "raised in close", "raised in metrics"}

\* C16: the execution index of every signal bar k of the data is
\* min(k + latency_bars, last_index), so it lies in [k, last_index], and
\* every entry and exit of the run executed at a bar of the data.
C16_ExecutionIndexClamped ==
    /\ \A k \in DOMAIN df :
          LET e == get_execution_index(cfg, k, len(df) - 1)
          IN  /\ e = Min(k + cfg.latency_bars, len(df) - 1)
              /\ k <= e /\ e <= len(df) - 1
    /\ \A k \in 1 .. Len(self.trades) :
          /\ self.trades[k].entry_date \in DOMAIN df
          /\ self.trades[k].exit_date \in DOMAIN df
    /\ self.current_trade # NoTrade => self.current_trade.entry_date \in DOMAIN df

\* With a latency, a buy signal on the last bar executed on the last bar.
C16_Witness ==
    /\ pc = "done"
    /\ cfg.latency_bars >= 1
    /\ Len(self.trades) >= 1
    /\ events.opens[Len(events.opens)] = len(df) - 1
    /\ LastTrade(self).entry_date = len(df) - 1

\* C17: every trade's entry price is the reference price of the bar its open
\* executed at times (1 + slippage), and its exit price the reference price
\* of the bar its close executed at times (1 - slippage); the reference
\* price is the bar's open under next_open and its close otherwise.
C17_ExecutionPrices ==
    pc \in {"loop", "done"} =>
        /\ \A k \in 1 .. Len(self.trades) :
              /\ self.trades[k].entry_price =
                    RMul(Ref(ExecBar(events.opens[k])), RAdd(One, cfg.slippage))
              /\ self.trades[k].exit_price =
                    RMul(Ref(ExecBar(events.closes[k])), RSub(One, cfg.slippage))
        /\ Long(self) =>
              self.current_trade.entry_price =
                  RMul(Ref(ExecBar(events.opens[Len(events.opens)])),
                       RAdd(One, cfg.slippage))

\* A run with slippage under the close rule recorded a sell-signal trade
\* whose open and close bars differ in price.
C17_Witness ==
    /\ pc = "done"
    /\ cfg.slippage # Zero
    /\ cfg.execution_mode = "close"
    /\ \E k \in 1 .. Len(self.trades) :
          /\ self.trades[k].exit_reason = "Signal Exit"
          /\ df[self.trades[k].entry_date].close # df[self.trades[k].entry_date].open
          /\ self.trades[k].entry_price # self.trades[k].exit_price

\* The frame is the fixture: open = close = [100, 100, 110, 110], signals
\* [0, 1, 0, -1].
IsFixture(d) ==
    /\ DOMAIN d = 0 .. 3
    /\ \A t \in 0 .. 3 :
          /\ d[t].open = Rat(<<100, 100, 110, 110>>[t + 1], 1)
          /\ d[t].close = d[t].open
          /\ d[t].signal = <<0, 1, 0, -1>>[t + 1]

\* C18: on the fixture, with capital 10000, no costs and latency 1, the run
\* records exactly one trade: entry at bar 2's open, 110, with quantity
\* 10000/110, exit at bar 3's open, 110, with reason Signal Exit, realized
\* P&L 0, and the final cash is 10000.
C18_Fixture ==
    (/\ pc = "done"
     /\ IsFixture(df)
     /\ cfg = Config(Zero, Zero, 1, "next_open")
     /\ args = RunArgs(None, None, One)) =>
        /\ Len(self.trades) = 1
        /\ self.trades[1].entry_date = 2
        /\ self.trades[1].entry_price = Rat(110, 1)
        /\ self.trades[1].quantity = Rat(10000, 110)
        /\ self.trades[1].exit_date = 3
        /\ self.trades[1].exit_price = Rat(110, 1)
        /\ self.trades[1].exit_reason = "Signal Exit"
        /\ self.trades[1].pnl = Zero
        /\ self.capital = Rat(10000, 1)

\* The run on the fixture returned.
C18_Witness ==
    /\ pc = "done"
    /\ IsFixture(df)
    /\ cfg = Config(Zero, Zero, 1, "next_open")
    /\ args = RunArgs(None, None, One)
    /\ Len(self.trades) = 1

\* C19: the first bar never trades: whatever its signal, the snapshot of bar
\* 0 has cash = total equity = peak = initial capital, quantity 0, return 0
\* and drawdown 0, and no position is opened or closed by a step on bar 0.
C19_FirstBarNeverTrades ==
    pc \in {"loop", "done"} =>
        /\ df[0].cash = cfg.initial_capital
        /\ df[0].total_value = cfg.initial_capital
        /\ df[0].peak = cfg.initial_capital
        /\ df[0].position_qty = Zero
        /\ df[0].position_value = Zero
        /\ df[0].returns = Zero
        /\ df[0].cumulative_returns = Zero
        /\ df[0].drawdown = Zero
        /\ \A k \in 1 .. Len(events.opens) : events.opens[k] >= 1
        /\ \A k \in 1 .. Len(events.closes) : events.closes[k] >= 1
        /\ \A k \in 1 .. Len(self.trades) : self.trades[k].entry_date >= 1

\* A run whose bar 0 carried a buy signal returned, having traded later.
C19_Witness ==
    /\ pc = "done"
    /\ df[0].signal = 1
    /\ Len(self.trades) >= 1
    /\ events.opens[1] >= 1

\* C20: a successful open from Flat with cash C, sizing fraction f and
\* execution price p > 0 sets the quantity to (C*f)/p and the entry price to
\* p, records the entry commission (C*f)*commission in the in-flight trade
\* and leaves cash C - (C*f)*(1 + commission).
C20_OpenFromFlat ==
    (op = "open_position" /\ Flat(old) /\ self # old) =>
        LET C == old.capital
            f == args.position_size
            p == self.entry_price
        IN  /\ RLt(Zero, p)
            /\ \E index \in DOMAIN df :
                  p = get_execution_price(
                          cfg, df, Min(index + cfg.latency_bars, len(df) - 1), "buy")
            /\ self.position = RDiv(RMul(C, f), p)
            /\ self.current_trade # NoTrade
            /\ self.current_trade.entry_price = p
            /\ self.current_trade.quantity = self.position
            /\ self.current_trade.commission = RMul(RMul(C, f), cfg.commission)
            /\ self.capital = RSub(C, RMul(RMul(C, f), RAdd(One, cfg.commission)))
            /\ self.trades = old.trades

\* An open from Flat succeeded under a commission, after an earlier trade.
C20_Witness ==
    /\ op = "open_position"
    /\ Flat(old)
    /\ Long(self)
    /\ cfg.commission # Zero
    /\ Len(old.trades) >= 1

\* The execution price of a buy decided at bar index.
BuyPrice(index) ==
    get_execution_price(cfg, df, Min(index + cfg.latency_bars, len(df) - 1), "buy")

\* The execution price of a sell decided at bar index.
SellPrice(index) ==
    get_execution_price(cfg, df, Min(index + cfg.latency_bars, len(df) - 1), "sell")

\* C21: an open attempted from Flat with a zero or negative execution price,
\* or with cash * sizing fraction <= 0, has no effect: position, cash,
\* ledger, entry price and in-flight trade stay as they were; so an open
\* that took effect had a positive price and a positive notional.
C21_InvalidOpenIsNoOp ==
    (op = "open_position" /\ Flat(old)) =>
        /\ (\/ RLe(RMul(old.capital, args.position_size), Zero)
            \/ \A index \in DOMAIN df : RLe(BuyPrice(index), Zero)) => self = old
        /\ self # old =>
              /\ RLt(Zero, self.entry_price)
              /\ RLt(Zero, RMul(old.capital, args.position_size))
              /\ Long(self)

\* An open was attempted from Flat with cash to spend, on a frame where every
\* bar index executes at a bar priced zero or less.
C21_Witness ==
    /\ op = "open_position"
    /\ Flat(old)
    /\ RLt(Zero, RMul(old.capital, args.position_size))
    /\ \A index \in DOMAIN df : RLe(BuyPrice(index), Zero)
    /\ \E t \in DOMAIN df : RLt(df[t].open, Zero)
    /\ self = old

\* C22: a close from Long with quantity q, entry price e and execution price
\* x adds q*x*(1 - commission) to cash and appends one record with
\* pnl = (x - e)*q (gross of commissions), pnl_percent = (x - e)/e,
\* commission = entry commission + q*x*commission and the given reason, and
\* leaves the simulator Flat.
C22_CloseFromLong ==
    (op = "close_position" /\ Long(old) /\ old.entry_price # None) =>
        /\ Len(self.trades) = Len(old.trades) + 1
        /\ LET q == old.position
               e == old.entry_price
               r == LastTrade(self)
               x == r.exit_price
           IN  /\ \E index \in DOMAIN df : x = SellPrice(index)
               /\ self.capital =
                     RAdd(old.capital, RMul(RMul(q, x), RSub(One, cfg.commission)))
               /\ r.pnl = RMul(RSub(x, e), q)
               /\ r.pnl_percent = RDiv(RSub(x, e), e)
               /\ r.commission =
                     RAdd(old.current_trade.commission, RMul(RMul(q, x), cfg.commission))
               /\ r.exit_reason = "Exit"
               /\ r.entry_price = e
               /\ r.quantity = q
        /\ Flat(self)
        /\ self.current_trade = NoTrade

\* A close from Long under a commission realized a non-zero P&L.
C22_Witness ==
    /\ op = "close_position"
    /\ Long(old)
    /\ cfg.commission # Zero
    /\ old.current_trade.commission # Zero
    /\ LastTrade(self).pnl # Zero

\* A rational that is a number: its denominator is positive.
Finite(x) == x[2] > 0

\* C23: the trade metrics of a returned run are finite numbers; with no
\* trade, win_rate, profit_factor, avg_win, avg_loss, max_win and max_loss
\* are 0; with trades none of which lost (or with avg_loss = 0),
\* profit_factor is 0; otherwise profit_factor = |avg_win / avg_loss| >= 0.
C23_TradeMetricsDefined ==
    pc = "done" =>
        LET m == metrics.trade
            lost == \E k \in 1 .. Len(self.trades) : RLt(self.trades[k].pnl, Zero)
        IN  /\ \A x \in {m.win_rate, m.profit_factor, m.avg_win, m.avg_loss,
                         m.max_win, m.max_loss} : Finite(x)
            /\ metrics.total_trades = Len(self.trades)
            /\ Len(self.trades) = 0 =>
                  /\ m.win_rate = Zero /\ m.profit_factor = Zero
                  /\ m.avg_win = Zero /\ m.avg_loss = Zero
                  /\ m.max_win = Zero /\ m.max_loss = Zero
            /\ (Len(self.trades) > 0 /\ (~lost \/ m.avg_loss = Zero)) =>
                  m.profit_factor = Zero
            /\ (Len(self.trades) > 0 /\ lost /\ m.avg_loss # Zero) =>
                  /\ m.profit_factor = RAbs(RDiv(m.avg_win, m.avg_loss))
                  /\ RLe(Zero, m.profit_factor)
            /\ lost <=> m.losing_trades > 0

\* A run returned with a winning trade and no losing one.
C23_Witness ==
    /\ pc = "done"
    /\ metrics.trade.winning_trades >= 1
    /\ metrics.trade.losing_trades = 0
    /\ metrics.trade.avg_win # Zero
    /\ metrics.trade.profit_factor = Zero

\* The bars processed so far are 1, 2, ..., n in this order.
BarsInOrder(n) ==
    /\ Len(events.bars) = n
    /\ \A k \in 1 .. n : events.bars[k] = k

\* The run has returned one snapshot per input bar, after processing bars
\* 1 .. len - 1 once each in increasing order and at most one further close.
Returned ==
    /\ pc = "done"
    /\ BarsInOrder(len(df) - 1)
    /\ DOMAIN df = 0 .. len(df) - 1
    /\ \A t \in DOMAIN df : df[t].timestamp = t /\ df[t].position_qty \in Seq(Int)
    /\ Closes(old, self) <= 1
    /\ Closes(old, self) = 1 => LastTrade(self).exit_reason = "End of Period"

\* C25: for any input of n >= 1 bars run terminates, having processed bars
\* 1 .. n-1 exactly once each in increasing order and performed at most one
\* further (End of Period) close, and returns exactly n snapshots, snapshot
\* t being that of input bar t.
C25_RunTerminates ==
    /\ [](pc = "loop" => BarsInOrder(i - 1))
    /\ [](pc = "done" => Returned)
    /\ <>Returned

\* A run on three bars or more returned after a forced close.
C25_Witness ==
    /\ Returned
    /\ len(df) >= 3
    /\ events.bars = <<1, 2>> \o SubSeq(events.bars, 3, Len(events.bars))
    /\ Closes(old, self) = 1

\* C27: on bar data with prices >= 0 and a valid configuration no step of a
\* run divides by zero: the entry price of an open position is > 0, the
\* bar's return is 0 when the previous total equity is 0, the drawdown is 0
\* when the peak is 0, and every stored ratio is a number.
C27_NoDivisionByZero ==
    pc \in {"loop", "done"} =>
        /\ Long(self) => RLt(Zero, self.entry_price)
        /\ (pc = "loop" /\ i < len(df)) => loop_failure(cfg, args, self, df, i) = "none"
        /\ (pc = "loop" /\ i >= len(df)) => end_failure(cfg, self, df) = "none"
        /\ op = "bar" =>
              /\ iloc(df, bar - 1).total_value = Zero => df[bar].returns = Zero
              /\ df[bar].peak = Zero => df[bar].drawdown = Zero
              /\ Finite(df[bar].returns)
              /\ Finite(df[bar].cumulative_returns)
              /\ Finite(df[bar].drawdown)
        /\ \A k \in 1 .. Len(self.trades) : Finite(self.trades[k].pnl_percent)

\* A bar was processed after a bar whose total equity was 0, and a buy
\* signal met a price of 0.
C27_Witness ==
    /\ op = "bar"
    /\ iloc(df, bar - 1).total_value = Zero
    /\ df[bar].total_value # Zero
    /\ \E t \in DOMAIN df : df[t].open = Zero /\ df[t].close = Zero

\* The rows run was handed, read back from the frame it returns.
input_of(d) ==
    [t \in DOMAIN d |-> Row(d[t].timestamp, d[t].open, d[t].close, d[t].signal)]

\* C24: runs on two separate Backtester instances share no mutable state:
\* however their per-bar steps interleave, each run's ledger, snapshots and
\* metrics are those the run produces when executed alone.
C24_InstancesIndependent ==
    /\ pc = "done" =>
          LET r == run(cfg, args, input_of(df))
          IN  self.trades = r.self.trades /\ df = r.df /\ metrics = r.metrics
    /\ (other # NoOther /\ other.pc = "done") =>
          LET r == run(other.cfg, other.args, input_of(other.df))
          IN  /\ other.self.trades = r.self.trades
              /\ other.df = r.df
              /\ other.metrics = r.metrics

\* Both runs returned with different non-empty ledgers, a bar of the second
\* having run between two bars of the first.
C24_Witness ==
    /\ pc = "done"
    /\ other # NoOther
    /\ other.pc = "done"
    /\ other.overlap
    /\ self.trades # <<>>
    /\ other.self.trades # <<>>
    /\ self.trades # other.self.trades

\* C26: in an iteration of the live bot where a stop-loss or take-profit
\* closed the position, the iteration's signal is suppressed: no BUY order
\* is placed and no new position is opened in that iteration.
C26_RiskCloseSuppressesSignal ==
    (bot # NoBot /\ bot.last.risk_closed) =>
        /\ \A k \in DOMAIN bot.last.orders : bot.last.orders[k].side # "BUY"
        /\ bot.position = NoPosition

\* C28: a strategy that opts out of risk management (Buy & Hold) is run by
\* run_strategy_once with stop_loss = None and take_profit = None whatever
\* the caller passed; on data of at least 2 bars the run records exactly one
\* trade, opened by the signal at bar 1 and closed with reason End of Period.
C28_BuyAndHoldUnmanaged ==
    (once # NoOnce /\ ~once.strategy.allow_stop_take) =>
        /\ args.stop_loss = None
        /\ args.take_profit = None
        /\ (pc = "done" /\ len(df) >= 2) =>
              /\ Len(self.trades) = 1
              /\ events.opens = <<1>>
              /\ events.closes = <<len(df) - 1>>
              /\ self.trades[1].exit_reason = "End of Period"

\* Buy & Hold returned on rows whose close fell by half after the entry,
\* the caller having passed a stop-loss and a take-profit.
C28_Witness ==
    /\ once # NoOnce
    /\ once.strategy = BuyAndHoldStrategy
    /\ once.stop_loss # None
    /\ once.take_profit # None
    /\ pc = "done"
    /\ len(df) >= 3
    /\ Len(self.trades) = 1
    /\ RLe(RDiv(RSub(df[2].close, self.trades[1].entry_price),
                self.trades[1].entry_price), RNeg(RAbs(once.stop_loss)))

TakeProfitHit(s, t) ==
    /\ args.take_profit # None
    /\ Long(s)
    /\ RLe(RAbs(args.take_profit), Unrealized(s, t))

\* C29: on a bar t >= 1 with no stop-loss or take-profit trigger, a signal
\* +1 while Flat opens if the open is valid; a signal -1 while Long closes
\* with reason Signal Exit; a signal 0, a signal +1 while Long and a signal
\* -1 while Flat leave cash, quantity, entry price, in-flight trade and
\* ledger unchanged.
C29_SignalTransitions ==
    (op = "bar" /\ ~StopLossHit(old, bar) /\ ~TakeProfitHit(old, bar)) =>
        LET sg == df[bar].signal
        IN  /\ (sg = 1 /\ Flat(old)) =>
                  IF RLt(Zero, BuyPrice(bar))
                     /\ RLt(Zero, RMul(old.capital, args.position_size))
                  THEN /\ Long(self)
                       /\ self.entry_price = BuyPrice(bar)
                       /\ self.current_trade # NoTrade
                       /\ self.trades = old.trades
                  ELSE self = old
            /\ (sg = -1 /\ Long(old)) =>
                  /\ Flat(self)
                  /\ Closes(old, self) = 1
                  /\ LastTrade(self).exit_reason = "Signal Exit"
                  /\ self.current_trade = NoTrade
            /\ (sg = 0 \/ (sg = 1 /\ Long(old)) \/ (sg = -1 /\ Flat(old))) =>
                  self = old

\* A buy signal met an open position and changed nothing.
C29_Witness ==
    /\ op = "bar"
    /\ ~StopLossHit(old, bar) /\ ~TakeProfitHit(old, bar)
    /\ df[bar].signal = 1
    /\ Long(old)
    /\ RLt(Zero, old.capital)
    /\ self = old

\* The return on the close of bar t of a trade entered at price e.
ReturnAt(e, t) == RDiv(RSub(df[t].close, e), e)

\* C30: a ledger entry has reason Stop Loss only if stop_loss is set and, at
\* the bar that decided the close, (close - entry_price)/entry_price <=
\* -|stop_loss|; Take Profit only if take_profit is set, the stop-loss
\* condition did not hold on that bar and the return was >= |take_profit|;
\* with both unset no entry has either reason.
C30_ExitReasonsSound ==
    pc \in {"loop", "done"} =>
        \A k \in 1 .. Len(self.trades) :
            LET r == self.trades[k]
                t == events.closes[k]
                stopped == /\ args.stop_loss # None
                           /\ RLe(ReturnAt(r.entry_price, t), RNeg(RAbs(args.stop_loss)))
            IN  /\ k <= Len(events.closes)
                /\ r.exit_reason = "Stop Loss" => stopped
                /\ r.exit_reason = "Take Profit" =>
                      /\ args.take_profit # None
                      /\ ~stopped
                      /\ RLe(RAbs(args.take_profit), ReturnAt(r.entry_price, t))
                /\ (args.stop_loss = None /\ args.take_profit = None) =>
                      r.exit_reason \notin {"Stop Loss", "Take Profit"}

\* With both thresholds set, a trade took its profit on a bar carrying a
\* sell signal.
C30_Witness ==
    /\ pc = "done"
    /\ args.stop_loss # None
    /\ args.take_profit # None
    /\ \E k \in 1 .. Len(self.trades) :
          /\ self.trades[k].exit_reason = "Take Profit"
          /\ df[events.closes[k]].signal = -1

\* The ledger entries of s closed with reason End of Period.
EndOfPeriodEntries(s) ==
    {k \in 1 .. Len(s.trades) : s.trades[k].exit_reason = "End of Period"}

\* C31: a ledger entry has reason End of Period if and only if the position
\* was still open after the last bar's step; a run has at most one such
\* entry, it is the last of the ledger, and it executes at the last bar, at
\* that bar's reference price times (1 - slippage).
C31_EndOfPeriodEntry ==
    /\ pc = "loop" => EndOfPeriodEntries(self) = {}
    /\ pc = "done" =>
          /\ Long(old) <=> EndOfPeriodEntries(self) # {}
          /\ Cardinality(EndOfPeriodEntries(self)) <= 1
          /\ Long(old) =>
                /\ EndOfPeriodEntries(self) = {Len(self.trades)}
                /\ LastTrade(self).exit_date = df[len(df) - 1].timestamp
                /\ LastTrade(self).exit_price =
                       RMul(Ref(len(df) - 1), RSub(One, cfg.slippage))
          /\ Flat(self)

\* A run with slippage returned after a forced close that followed an
\* earlier, signalled close.
C31_Witness ==
    /\ pc = "done"
    /\ Long(old)
    /\ cfg.slippage # Zero
    /\ Len(self.trades) >= 2
    /\ df[len(df) - 1].open # df[len(df) - 2].open

\* Whether the bot holds a position after the first k orders of its last
\* iteration, as their outcomes tell.
RECURSIVE HeldAfter(_)
HeldAfter(k) ==
    IF k = 0 THEN bot.last.before # NoPosition
    ELSE IF bot.last.orders[k].outcome = "filled"
    THEN bot.last.orders[k].side = "BUY"
    ELSE HeldAfter(k - 1)

\* C32: the live bot holds at most one position and changes it only on a
\* successful order: a BUY is placed only while no position is held, a SELL
\* only while one is held, and an order that failed (place_order returned
\* None) or raised leaves the position exactly as it was.
C32_PositionFollowsOrders ==
    bot # NoBot =>
        LET orders == bot.last.orders
        IN  /\ \A k \in DOMAIN orders :
                  /\ orders[k].side = "BUY" => ~HeldAfter(k - 1)
                  /\ orders[k].side = "SELL" => HeldAfter(k - 1)
            /\ (bot.position # NoPosition) = HeldAfter(Len(orders))
            /\ (\A k \in DOMAIN orders : orders[k].outcome # "filled") =>
                  bot.position = bot.last.before

\* A live bot holding a position sent an order that the exchange rejected.
C32_Witness ==
    /\ bot # NoBot
    /\ ~bot.test_mode
    /\ bot.last.before # NoPosition
    /\ \E k \in DOMAIN bot.last.orders : bot.last.orders[k].outcome = "rejected"
    /\ bot.position = bot.last.before

\* C33: in every state of a run with a valid configuration (commission >=
\* 0, slippage >= 0, sizing fraction in (0, 1], positive prices) the cash
\* of the simulator and of every snapshot is >= 0.
C33_CashNonNegative ==
    pc \in {"loop", "done"} =>
        /\ RLe(Zero, self.capital)
        /\ \A t \in DOMAIN df : RLe(Zero, df[t].cash)

\* pnl - commission of each ledger entry of s.
NetResults(s) ==
    [k \in 1 .. Len(s.trades) |-> RSub(s.trades[k].pnl, s.trades[k].commission)]

\* C34: whenever the simulator is Flat during or after a run, cash equals
\* initial_capital plus the sum over the ledger of (pnl - commission).
C34_CashConserved ==
    (pc \in {"loop", "done"} /\ Flat(self)) =>
        self.capital = RAdd(cfg.initial_capital, RSum(NetResults(self)))

\* A run with a commission returned Flat with two trades, the first of them
\* with a non-zero result.
C34_Witness ==
    /\ pc = "done"
    /\ Flat(self)
    /\ cfg.commission # Zero
    /\ Len(self.trades) >= 2
    /\ self.trades[1].pnl # Zero

\* C35: when run returns, the reported final_capital (the total equity of
\* the last snapshot, from which total_return is computed) equals the
\* simulator's cash, also after a forced End of Period close.
C35_FinalCapitalIsCash ==
    pc = "done" => metrics.final_capital = self.capital

\* C36: a position is never closed by a decision (stop-loss, take-profit or
\* sell signal) taken at a bar earlier than the bar at which its entry
\* executes, min(entry signal bar + latency_bars, last), at any latency.
C36_NoCloseBeforeEntryExecutes ==
    pc \in {"loop", "done"} =>
        \A k \in 1 .. Len(self.trades) :
            self.trades[k].exit_reason # "End of Period" =>
                events.closes[k] >= ExecBar(events.opens[k])

\* C37: the execution bars of the ledger are ordered in time: every trade
\* enters at a bar <= the bar it exits at, and of two consecutive trades the
\* earlier exits at a bar <= the bar the later enters at; so does the
\* in-flight trade after the last entry.
C37_ExecutionBarsOrdered ==
    pc \in {"loop", "done"} =>
        /\ \A k \in 1 .. Len(self.trades) :
              /\ self.trades[k].entry_date <= self.trades[k].exit_date
              /\ k > 1 => self.trades[k - 1].exit_date <= self.trades[k].entry_date
        /\ (self.current_trade # NoTrade /\ self.trades # <<>>) =>
              LastTrade(self).exit_date <= self.current_trade.entry_date

\* A run at the longest latency returned two trades, the first closed by a
\* decision of the loop.
C37_Witness ==
    /\ pc = "done"
    /\ cfg.latency_bars = MaxLatency + 1
    /\ Len(self.trades) >= 2
    /\ self.trades[1].exit_reason # "End of Period"

\* C38: every position the live bot closes, by sell signal, stop-loss or
\* take-profit, appends exactly one record to trades_log: the number of
\* logged trades is the number of positions closed.
C38_EveryCloseLogged ==
    bot # NoBot => Len(bot.trades_log) = bot.closes

\* C39: during a run an in-flight trade exists exactly when the simulator is
\* Long (current_trade is None <=> position == 0), so a close always finds
\* the in-flight trade of its position and never synthesises one.
C39_InFlightTradeIffLong ==
    pc \in {"loop", "done"} =>
        /\ (self.current_trade = NoTrade) <=> (self.position = Zero)
        /\ (op \in {"bar", "end"} /\ Closes(old, self) >= 1) =>
              /\ old.current_trade # NoTrade
              /\ LastTrade(self).entry_date = old.current_trade.entry_date
              /\ RLe(old.current_trade.commission, LastTrade(self).commission)

\* A bar of the loop closed a position that was opened with a commission.
C39_Witness ==
    /\ op = "bar"
    /\ Closes(old, self) = 1
    /\ self.current_trade = NoTrade
    /\ old.current_trade # NoTrade
    /\ old.current_trade.commission # Zero

=========================================================================
